---- MODULE Spec2Model ----
(***************************************************************************)
(* A model of rsa/dsm.py: the DSM computers (compute_dsm, compute_dsm_cv), *)
(* the condensed-form helper (_ensure_condensed) and the three searchlight *)
(* generators (dsm_spat, dsm_temp, dsm_spattemp).                          *)
(*                                                                         *)
(* Conventions.  Arrays are nested sequences (1-based); series and sample  *)
(* indices that the code computes with (neighbourhoods, patch centers) are *)
(* kept 0-based, as in the code, and 1 is added where a sequence is        *)
(* indexed.  Array elements are exact rationals <<num, den>>, den > 0, in  *)
(* lowest terms: the code's floating point arithmetic is modelled without  *)
(* rounding.  A call returns [ok |-> TRUE, val |-> v] or raises            *)
(* [ok |-> FALSE, val |-> <name of the exception>].                        *)
(***************************************************************************)
EXTENDS Integers, Sequences, FiniteSets, TLC

VARIABLES
    fn,              \* the function of dsm.py this behaviour runs
    pc,              \* where that function stands
    folds,           \* dsm_*: the tensor _create_folds returned; compute_dsm_cv: its argument
    dist,            \* dsm_spat, dsm_spattemp: the series x series distances
    spatial_radius,  \* a rational
    temporal_radius, \* a natural number
    dist_metric,
    dist_params,     \* None, or the option map
    n_jobs,          \* dsm_spattemp: the parallelism degree
    returns_as,      \* dsm_spattemp: what joblib's Parallel hands back, "list" or "generator"
    pos,             \* dsm_spat: series visited; dsm_temp: centers visited
    patches,         \* history: the patch selections made so far, in order
    out,             \* what the caller of the generator has been handed, in order
    err,             \* the exception the call ended in, or "none"
    pool,            \* dsm_spattemp: the worker pool of Parallel
    cv,              \* compute_dsm_cv: its locals
    ec               \* _ensure_condensed: its argument, its position in a list, its results

vars == <<fn, pc, folds, dist, spatial_radius, temporal_radius, dist_metric,
          dist_params, n_jobs, returns_as, pos, patches, out, err, pool, cv, ec>>

None == "None"

\* F(v), with v evaluated once: TLC evaluates an operator's argument anew at each
\* use, and a value bound through a set is evaluated once
Once(v, F(_)) == CHOOSE r \in {F(x) : x \in {v}} : TRUE
Return(v) == [ok |-> TRUE, val |-> v]
Raise(e) == [ok |-> FALSE, val |-> e]

(***************************************************************************)
(* Exact arithmetic                                                        *)
(***************************************************************************)
Abs(x) == IF x < 0 THEN -x ELSE x

RECURSIVE GCD(_, _)
GCD(a, b) == IF b = 0 THEN a ELSE GCD(b, a % b)

\* n/d in lowest terms with a positive denominator (d # 0)
Rat(n, d) ==
    LET s == IF d < 0 THEN -1 ELSE 1
        g == GCD(Abs(n), Abs(d))
    IN  <<(s * n) \div g, (s * d) \div g>>

Q(n) == <<n, 1>>
RAdd(a, b) == Rat(a[1] * b[2] + b[1] * a[2], a[2] * b[2])
RSub(a, b) == Rat(a[1] * b[2] - b[1] * a[2], a[2] * b[2])
RMul(a, b) == Rat(a[1] * b[1], a[2] * b[2])
RDiv(a, b) == Rat(a[1] * b[2], a[2] * b[1])
RAbs(a) == <<Abs(a[1]), a[2]>>
RLess(a, b) == a[1] * b[2] < b[1] * a[2]

RECURSIVE RSum(_)
RSum(s) == IF s = <<>> THEN Q(0) ELSE RAdd(s[1], RSum(Tail(s)))

(***************************************************************************)
(* numpy and scipy, as far as dsm.py uses them                             *)
(***************************************************************************)
\* np.reshape(x, -1) of an array with `depth` axes: its elements in C order
RECURSIVE Ravel(_, _)
RECURSIVE RavelFrom(_, _, _)
Ravel(x, depth) == IF depth = 0 THEN <<x>> ELSE RavelFrom(x, depth, 1)
RavelFrom(x, depth, k) ==
    IF k > Len(x) THEN <<>>
    ELSE Ravel(x[k], depth - 1) \o RavelFrom(x, depth, k + 1)

\* np.reshape(x, (len(x), -1)) of an array with ndim axes
Reshape2(x, ndim) == [k \in 1..Len(x) |-> Ravel(x[k], ndim - 1)]

\* np.reshape(x, (x.shape[0], x.shape[1], -1)) of an array with ndim axes
Reshape3(x, ndim) == [k \in 1..Len(x) |-> Reshape2(x[k], ndim - 1)]

\* the metrics of scipy.spatial.distance that exact arithmetic can state
Metrics == {"sqeuclidean", "cityblock"}

Distance(metric, u, v) ==
    IF metric = "sqeuclidean"
    THEN RSum([k \in 1..Len(u) |-> RMul(RSub(u[k], v[k]), RSub(u[k], v[k]))])
    ELSE RSum([k \in 1..Len(u) |-> RAbs(RSub(u[k], v[k]))])

\* distance.pdist: for i in range(m - 1): for j in range(i + 1, m)
RECURSIVE pdist_from(_, _, _, _)
pdist_from(X, metric, i, j) ==
    IF i >= Len(X) THEN <<>>
    ELSE IF j > Len(X) THEN pdist_from(X, metric, i + 1, i + 2)
    ELSE <<Distance(metric, X[i], X[j])>> \o pdist_from(X, metric, i, j + 1)

pdist(X, metric) == pdist_from(X, metric, 1, 2)

\* distance.cdist: the matrix of the distances from each row of XA to each row of XB
cdist(XA, XB, metric) ==
    [i \in 1..Len(XA) |-> [j \in 1..Len(XB) |-> Distance(metric, XA[i], XB[j])]]

\* np.triu_indices_from(m, k): the (row, column) pairs, 0-based and row-major,
\* on or above the k-th diagonal of a square matrix
triu_indices_from(m, k) ==
    LET n == Len(m)
        all == [p \in 1..(n * n) |-> <<(p - 1) \div n, (p - 1) % n>>]
    IN  SelectSeq(all, LAMBDA rc : rc[2] - rc[1] >= k)

\* m[np.triu_indices_from(m, 1)]
TakeAt(m, ind) == [p \in 1..Len(ind) |-> m[ind[p][1] + 1][ind[p][2] + 1]]

\* np.zeros(n)
zeros(n) == [p \in 1..n |-> Q(0)]

\* X.mean(axis=0) of a 3-D array
mean_axis0(X) ==
    [i \in 1..Len(X[1]) |->
        [f \in 1..Len(X[1][i]) |->
            RDiv(RSum([k \in 1..Len(X) |-> X[k][i][f]]), Q(Len(X)))]]

(***************************************************************************)
(* compute_dsm                                                             *)
(***************************************************************************)
NFeatures(rows) == IF Len(rows) = 0 THEN 0 ELSE Len(rows[1])

compute_dsm(data, ndim, metric) ==
    Once(Reshape2(data, ndim), LAMBDA X :
        IF NFeatures(X) = 1 /\ metric \in {"correlation", "cosine"}
        THEN Raise("ValueError")
        ELSE Return(pdist(X, metric)))

(***************************************************************************)
(* compute_dsm_cv                                                          *)
(***************************************************************************)
\* line 103: X_mean - (X_mean - X_test) / (n_folds - 1), element by element
X_train(X_mean, X_test, n_folds) ==
    [i \in 1..Len(X_mean) |->
        [f \in 1..Len(X_mean[i]) |->
            RSub(X_mean[i][f],
                 RDiv(RSub(X_mean[i][f], X_test[i][f]), Q(n_folds - 1)))]]

\* lines 102-106: one pass of the loop body, test_fold counted from 0
cv_iteration(dsm, X, X_mean, test_fold, metric) ==
    Once(X_train(X_mean, X[test_fold + 1], Len(X)), LAMBDA train :
    Once(cdist(train, X[test_fold + 1], metric), LAMBDA d :
    Once(TakeAt(d, triu_indices_from(d, 1)), LAMBDA upper :
        [p \in 1..Len(dsm) |-> RAdd(dsm[p], upper[p])])))

\* the accumulated distances left unaveraged
cv_result_unaveraged(dsm, n_folds) == dsm

\* line 108: dsm / n_folds
cv_result(dsm, n_folds) == [p \in 1..Len(dsm) |-> RDiv(dsm[p], Q(n_folds))]

\* line 96
cv_zeros(X) == zeros((Len(X[1]) * (Len(X[1]) - 1)) \div 2)

cv_invalid(X, metric) ==
    NFeatures(X[1]) = 1 /\ metric \in {"correlation", "cosine"}

RECURSIVE cv_loop(_, _, _, _)
cv_loop(X, X_mean, test_fold, metric) ==
    IF test_fold = 0 THEN cv_zeros(X)
    ELSE Once(cv_loop(X, X_mean, test_fold - 1, metric), LAMBDA dsm :
              cv_iteration(dsm, X, X_mean, test_fold - 1, metric))

compute_dsm_cv(fold_array, ndim, metric) ==
    Once(Reshape3(fold_array, ndim), LAMBDA X :
        IF cv_invalid(X, metric) THEN Raise("ValueError")
        ELSE Once(mean_axis0(X), LAMBDA X_mean :
             Once(cv_loop(X, X_mean, Len(X), metric), LAMBDA dsm :
                 Return(cv_result(dsm, Len(X))))))

(***************************************************************************)
(* compute_dsm_cv, step by step                                            *)
(***************************************************************************)
NItemsCV == 3
MaxFoldsCV == 5

\* the feature vectors an item of the fold array is drawn from
CVRows == {<<0, 1>>, <<3, 3>>}
\* what a fold adds to (0) or leaves off (1) its observations
CVNoise == {0, 1}

\* fold arrays, shape (n_folds, n_items, 2): every fold observes the same items,
\* fold k with noise[k] times an item- and feature-dependent weight added
CVFoldArrays ==
    UNION { { [k \in 1..n_folds |->
                [i \in 1..NItemsCV |->
                    [f \in 1..2 |-> Q(base[i][f] + noise[k] * (i + f))]]]
              : base \in [1..NItemsCV -> CVRows], noise \in [1..n_folds -> CVNoise] }
            : n_folds \in 2..MaxFoldsCV }

genIdle ==
    /\ dist = None /\ spatial_radius = None /\ temporal_radius = None
    /\ dist_params = None /\ n_jobs = None /\ returns_as = None
    /\ pos = 0 /\ patches = <<>> /\ out = <<>> /\ pool = None

genVars == <<dist, spatial_radius, temporal_radius, dist_params, n_jobs,
             returns_as, pos, patches, out, pool>>

InitCV ==
    /\ fn = "compute_dsm_cv"
    /\ pc = "call"
    /\ folds \in CVFoldArrays
    /\ dist_metric \in Metrics
    /\ cv = [X |-> None, X_mean |-> None, test_fold |-> 0, X_train |-> None,
             dsm |-> None, ret |-> None]
    /\ err = "none"
    /\ ec = None
    /\ genIdle

\* lines 86-98
cv_enter ==
    /\ fn = "compute_dsm_cv"
    /\ pc = "call"
    /\ LET X == Reshape3(folds, 3)
       IN  IF cv_invalid(X, dist_metric)
           THEN /\ pc' = "done"
                /\ err' = "ValueError"
                /\ cv' = cv
           ELSE /\ pc' = "loop"
                /\ err' = err
                /\ cv' = [cv EXCEPT !.X = X, !.X_mean = mean_axis0(X),
                                    !.dsm = cv_zeros(X)]
    /\ UNCHANGED <<fn, folds, dist_metric, ec>>
    /\ UNCHANGED genVars

\* lines 101-106, one test fold
cv_iterate ==
    /\ fn = "compute_dsm_cv"
    /\ pc = "loop"
    /\ cv.test_fold < Len(cv.X)
    /\ cv' = [cv EXCEPT
                !.X_train = X_train(cv.X_mean, cv.X[cv.test_fold + 1], Len(cv.X)),
                !.dsm = cv_iteration(cv.dsm, cv.X, cv.X_mean, cv.test_fold, dist_metric),
                !.test_fold = cv.test_fold + 1]
    /\ UNCHANGED <<fn, pc, folds, dist_metric, err, ec>>
    /\ UNCHANGED genVars

\* line 108
cv_return ==
    /\ fn = "compute_dsm_cv"
    /\ pc = "loop"
    /\ cv.test_fold = Len(cv.X)
    /\ cv' = [cv EXCEPT !.ret = cv_result(cv.dsm, Len(cv.X))]
    /\ pc' = "done"
    /\ UNCHANGED <<fn, folds, dist_metric, err, ec>>
    /\ UNCHANGED genVars

NextCV == cv_enter \/ cv_iterate \/ cv_return

SpecCV == InitCV /\ [][NextCV]_vars

(***************************************************************************)
(* The searchlight generators: what they share                             *)
(***************************************************************************)
Min(a, b) == IF a < b THEN a ELSE b
Max(a, b) == IF a > b THEN a ELSE b

\* list(range(a, b))
Range(a, b) == [p \in 1..Max(0, b - a) |-> a + p - 1]

\* seq[a:b] of Python, 0-based, negative bounds counted from the end
PySlice(seq, a, b) ==
    LET n == Len(seq)
        norm(x) == IF x < 0 THEN Max(x + n, 0) ELSE Min(x, n)
    IN  SubSeq(seq, norm(a) + 1, norm(b))

\* the range without its "+ 1"
centers_without_last(n_samples, radius) ==
    Range(radius, n_samples - radius)

_get_time_patch_centers(n_samples, radius) ==
    Range(radius, n_samples - radius + 1)

\* the comparison turned round: the series beyond the radius
neighborhood_beyond_radius(series_dist, radius) ==
    SelectSeq(Range(0, Len(series_dist)),
              LAMBDA j : RLess(radius, Q(series_dist[j + 1])))

\* np.flatnonzero(series_dist < radius): the 0-based positions, ascending
Neighborhood(series_dist, radius) ==
    SelectSeq(Range(0, Len(series_dist)),
              LAMBDA j : RLess(Q(series_dist[j + 1]), radius))

\* folds[:, :, idx]
TakeSeries(fold_array, idx) ==
    [k \in 1..Len(fold_array) |->
        [i \in 1..Len(fold_array[k]) |->
            [p \in 1..Len(idx) |-> fold_array[k][i][idx[p] + 1]]]]

\* folds[..., a:b]
TakeSamples(fold_array, a, b) ==
    [k \in 1..Len(fold_array) |->
        [i \in 1..Len(fold_array[k]) |->
            [s \in 1..Len(fold_array[k][i]) |-> PySlice(fold_array[k][i][s], a, b)]]]

\* folds[:, :, np.flatnonzero(dist[series] < spatial_radius)] of dsm_spat
SpatPatch(fold_array, series_dist, radius) ==
    TakeSeries(fold_array, Neighborhood(series_dist, radius))

\* folds[..., center - temporal_radius:center + temporal_radius] of dsm_temp
TempPatch(fold_array, center, radius) ==
    TakeSamples(fold_array, center - radius, center + radius)

\* the patch of dsm_spattemp.patch_iterator
SpatTempPatch(fold_array, series_dist, s_radius, sample, t_radius) ==
    TakeSamples(TakeSeries(fold_array, Neighborhood(series_dist, s_radius)),
                sample - t_radius, sample + t_radius)

\* dsm_func, chosen by len(folds) == 1, applied to a patch of the 4-D fold tensor
dsm_func(fold_array, patch, metric) ==
    IF Len(fold_array) = 1 THEN compute_dsm(patch, 4, metric)
    ELSE compute_dsm_cv(patch, 4, metric)

\* dsm_func(patch, dist_metric, **dist_params): unpacking None is a TypeError
call_dsm_func(fold_array, patch, metric, params) ==
    IF params = None THEN Raise("TypeError")
    ELSE Once(patch, LAMBDA p : dsm_func(fold_array, p, metric))

n_series_of(fold_array) == Len(fold_array[1][1])
n_samples_of(fold_array) == Len(fold_array[1][1][1])

\* history record of one patch selection
Selection(series, idx, sample, window) ==
    [series |-> series, idx |-> idx, sample |-> sample, window |-> window]

(***************************************************************************)
(* Inputs of the generators                                                *)
(***************************************************************************)
NItems == 3
MaxFolds == 2
MaxSeries == 3
MaxSamples == 3
MaxTemporalRadius == 1

\* the tensor _create_folds hands back: folds x items x n_series x n_times
FoldTensor(n_folds, n_series, n_samples) ==
    [k \in 1..n_folds |->
        [i \in 1..NItems |->
            [s \in 1..n_series |->
                [t \in 1..n_samples |->
                    Q(i * i * s + i * (t - 1) * (s + 1) + (k - 1) * (i + t - 1))]]]]

\* series on a line, one unit apart; series that are all two units apart
LineDist(n) == [a \in 1..n |-> [b \in 1..n |-> Abs(a - b)]]
EqualDist(n) == [a \in 1..n |-> [b \in 1..n |-> IF a = b THEN 0 ELSE 2]]
DistMatrices(n) == {LineDist(n), EqualDist(n)}

SpatialRadii == {Q(0), Q(1), Rat(3, 2)}
GenMetrics == {"sqeuclidean"}
EmptyMap == "{}"
DistParams == {None, EmptyMap}
\* the parallelism degrees: one worker, or two that finish in either order
JobCounts == {1, 2}

noPool == [next |-> 0, running |-> {}, results |-> <<>>, first |-> -1, dsm_gen |-> <<>>]
cvIdle == cv = None
ecIdle == ec = None

InitGen(functions, max_samples, max_radius) ==
    /\ fn \in functions
    /\ pc = "created"
    /\ \E n_folds \in 1..MaxFolds, n_series \in 1..MaxSeries, n_samples \in 1..max_samples :
          /\ folds = FoldTensor(n_folds, IF fn = "dsm_temp" THEN 1 ELSE n_series, n_samples)
          /\ dist \in IF fn = "dsm_temp" THEN {None} ELSE DistMatrices(n_series)
    /\ spatial_radius \in IF fn = "dsm_temp" THEN {None} ELSE SpatialRadii
    /\ temporal_radius \in IF fn = "dsm_spat" THEN {None} ELSE 0..max_radius
    /\ dist_metric \in GenMetrics
    /\ dist_params \in DistParams
    /\ n_jobs \in IF fn = "dsm_spattemp" THEN JobCounts ELSE {None}
    /\ returns_as = None
    /\ pos = 0
    /\ patches = <<>>
    /\ out = <<>>
    /\ err = "none"
    /\ pool = noPool
    /\ cvIdle
    /\ ecIdle

frame == <<fn, folds, dist, spatial_radius, temporal_radius, dist_metric,
           dist_params, n_jobs, cv, ec>>

(***************************************************************************)
(* dsm_spat: one action per next() of the caller                           *)
(***************************************************************************)
spat_selection == Selection(pos, Neighborhood(dist[pos + 1], spatial_radius), -1, <<>>)
spat_call ==
    call_dsm_func(folds, SpatPatch(folds, dist[pos + 1], spatial_radius),
                  dist_metric, dist_params)

\* lines 323-326: the next series, its patch, its DSM handed to the caller
dsm_spat_yield ==
    /\ fn = "dsm_spat"
    /\ pc \in {"created", "suspended"}
    /\ pos < Len(dist)
    /\ \E r \in {spat_call} :
          /\ r.ok
          /\ out' = Append(out, r.val)
    /\ patches' = Append(patches, spat_selection)
    /\ pos' = pos + 1
    /\ pc' = "suspended"
    /\ UNCHANGED <<err, returns_as, pool>>
    /\ UNCHANGED frame

\* line 326: the call raises, the generator ends
dsm_spat_raise ==
    /\ fn = "dsm_spat"
    /\ pc \in {"created", "suspended"}
    /\ pos < Len(dist)
    /\ \E r \in {spat_call} :
          /\ ~r.ok
          /\ err' = r.val
    /\ patches' = Append(patches, spat_selection)
    /\ pc' = "done"
    /\ UNCHANGED <<out, pos, returns_as, pool>>
    /\ UNCHANGED frame

\* line 323: dist is exhausted
dsm_spat_stop ==
    /\ fn = "dsm_spat"
    /\ pc \in {"created", "suspended"}
    /\ pos = Len(dist)
    /\ pc' = "done"
    /\ UNCHANGED <<out, err, pos, patches, returns_as, pool>>
    /\ UNCHANGED frame

(***************************************************************************)
(* dsm_temp: one action per next() of the caller                           *)
(***************************************************************************)
centers == _get_time_patch_centers(n_samples_of(folds), temporal_radius)

temp_selection ==
    Selection(-1, <<>>, centers[pos + 1],
              <<centers[pos + 1] - temporal_radius, centers[pos + 1] + temporal_radius>>)
temp_call ==
    call_dsm_func(folds, TempPatch(folds, centers[pos + 1], temporal_radius),
                  dist_metric, dist_params)

\* lines 417-420
dsm_temp_yield ==
    /\ fn = "dsm_temp"
    /\ pc \in {"created", "suspended"}
    /\ pos < Len(centers)
    /\ \E r \in {temp_call} :
          /\ r.ok
          /\ out' = Append(out, r.val)
    /\ patches' = Append(patches, temp_selection)
    /\ pos' = pos + 1
    /\ pc' = "suspended"
    /\ UNCHANGED <<err, returns_as, pool>>
    /\ UNCHANGED frame

\* line 420: the call raises
dsm_temp_raise ==
    /\ fn = "dsm_temp"
    /\ pc \in {"created", "suspended"}
    /\ pos < Len(centers)
    /\ \E r \in {temp_call} :
          /\ ~r.ok
          /\ err' = r.val
    /\ patches' = Append(patches, temp_selection)
    /\ pc' = "done"
    /\ UNCHANGED <<out, pos, returns_as, pool>>
    /\ UNCHANGED frame

\* line 417: the centers are exhausted
dsm_temp_stop ==
    /\ fn = "dsm_temp"
    /\ pc \in {"created", "suspended"}
    /\ pos = Len(centers)
    /\ pc' = "done"
    /\ UNCHANGED <<out, err, pos, patches, returns_as, pool>>
    /\ UNCHANGED frame

(***************************************************************************)
(* dsm_spattemp.  The first next() of the caller runs the body up to line  *)
(* 243; Parallel (line 239) draws the tasks from the generator expression  *)
(* in order, runs at most n_jobs of them at a time and lets them finish in *)
(* any order.                                                              *)
(***************************************************************************)
\* lines 220-221: for series in range(n_series): for sample in centers
RECURSIVE patch_order_from(_, _, _)
patch_order_from(series, n_series, cs) ==
    IF series >= n_series THEN <<>>
    ELSE [p \in 1..Len(cs) |-> <<series, cs[p]>>]
         \o patch_order_from(series + 1, n_series, cs)

patch_order == patch_order_from(0, n_series_of(folds), centers)

\* the patch of task t (0-based) and its history record
task_patch(t) ==
    SpatTempPatch(folds, dist[patch_order[t + 1][1] + 1], spatial_radius,
                  patch_order[t + 1][2], temporal_radius)
task_selection(t) ==
    Selection(patch_order[t + 1][1],
              Neighborhood(dist[patch_order[t + 1][1] + 1], spatial_radius),
              patch_order[t + 1][2],
              <<patch_order[t + 1][2] - temporal_radius,
                patch_order[t + 1][2] + temporal_radius>>)

\* the results as the workers completed them, as far as the pool records it:
\* the task that finished first comes first
parallel_output_as_completed(p) ==
    LET n == Cardinality(DOMAIN p.results)
        order == <<p.first>> \o SelectSeq(Range(0, n), LAMBDA t : t # p.first)
    IN  [q \in 1..n |-> p.results[order[q]]]

\* what Parallel(n_jobs)(...) evaluates to: the results in the order of the tasks
parallel_output(p) == [t \in 1..Cardinality(DOMAIN p.results) |-> p.results[t - 1]]

\* lines 240-241: the next patch is drawn and its task handed to a free worker
st_dispatch ==
    /\ fn = "dsm_spattemp"
    /\ pc \in {"created", "parallel"}
    /\ pool.next < Len(patch_order)
    /\ Cardinality(pool.running) < n_jobs
    /\ dist_params # None
    /\ pool' = [pool EXCEPT !.next = pool.next + 1,
                            !.running = pool.running \cup {pool.next}]
    /\ patches' = Append(patches, task_selection(pool.next))
    /\ pc' = "parallel"
    /\ UNCHANGED <<out, err, pos, returns_as>>
    /\ UNCHANGED frame

\* line 240: **dist_params of None raises as the task is built
st_dispatch_raise ==
    /\ fn = "dsm_spattemp"
    /\ pc \in {"created", "parallel"}
    /\ pool.next < Len(patch_order)
    /\ Cardinality(pool.running) < n_jobs
    /\ dist_params = None
    /\ err' = "TypeError"
    /\ patches' = Append(patches, task_selection(pool.next))
    /\ pc' = "done"
    /\ UNCHANGED <<out, pos, pool, returns_as>>
    /\ UNCHANGED frame

\* a worker finishes task t; a task that raises ends the call
st_complete(t) ==
    /\ fn = "dsm_spattemp"
    /\ pc = "parallel"
    /\ t \in pool.running
    /\ \E r \in {call_dsm_func(folds, task_patch(t), dist_metric, dist_params)} :
           IF r.ok
           THEN /\ pool' = [pool EXCEPT
                        !.running = pool.running \ {t},
                        !.results = [u \in DOMAIN pool.results \cup {t} |->
                                        IF u = t THEN r.val ELSE pool.results[u]],
                        !.first = IF pool.first = -1 THEN t ELSE pool.first]
                /\ UNCHANGED <<pc, err>>
           ELSE /\ err' = r.val
                /\ pc' = "done"
                /\ pool' = pool
    /\ UNCHANGED <<out, pos, patches, returns_as>>
    /\ UNCHANGED frame

all_tasks_done ==
    /\ fn = "dsm_spattemp"
    /\ pc \in {"created", "parallel"}
    /\ pool.next = Len(patch_order)
    /\ pool.running = {}

\* line 243, Parallel having returned a list: next() of a list is a TypeError
st_next_of_list ==
    /\ all_tasks_done
    /\ returns_as' = "list"
    /\ pool' = [pool EXCEPT !.dsm_gen = parallel_output(pool)]
    /\ err' = "TypeError"
    /\ pc' = "done"
    /\ UNCHANGED <<out, pos, patches>>
    /\ UNCHANGED frame

\* line 243, Parallel having returned a generator of results: the first one is yielded
st_next_of_generator ==
    /\ all_tasks_done
    /\ Len(patch_order) > 0
    /\ returns_as' = "generator"
    /\ pool' = [pool EXCEPT !.dsm_gen = parallel_output(pool)]
    /\ out' = Append(out, parallel_output(pool)[1])
    /\ pc' = "suspended"
    /\ UNCHANGED <<err, pos, patches>>
    /\ UNCHANGED frame

\* line 243, a generator with no result: StopIteration inside a generator body
\* surfaces as RuntimeError
st_next_of_empty_generator ==
    /\ all_tasks_done
    /\ Len(patch_order) = 0
    /\ returns_as' = "generator"
    /\ pool' = [pool EXCEPT !.dsm_gen = parallel_output(pool)]
    /\ err' = "RuntimeError"
    /\ pc' = "done"
    /\ UNCHANGED <<out, pos, patches>>
    /\ UNCHANGED frame

\* the next() after line 243: the body ends
st_stop ==
    /\ fn = "dsm_spattemp"
    /\ pc = "suspended"
    /\ pc' = "done"
    /\ UNCHANGED <<out, err, pos, patches, returns_as, pool>>
    /\ UNCHANGED frame

(***************************************************************************)
(* The generators together                                                 *)
(***************************************************************************)
Init == InitGen({"dsm_spat", "dsm_temp", "dsm_spattemp"}, MaxSamples, MaxTemporalRadius)

Next ==
    \/ dsm_spat_yield \/ dsm_spat_raise \/ dsm_spat_stop
    \/ dsm_temp_yield \/ dsm_temp_raise \/ dsm_temp_stop
    \/ st_dispatch \/ st_dispatch_raise
    \/ \E t \in pool.running : st_complete(t)
    \/ st_next_of_list \/ st_next_of_generator \/ st_next_of_empty_generator
    \/ st_stop

Spec == Init /\ [][Next]_vars

\* dsm_temp alone, on longer recordings
MaxSamplesTemp == 10
MaxRadiusTemp == 6

InitTemp == InitGen({"dsm_temp"}, MaxSamplesTemp, MaxRadiusTemp)
NextTemp == dsm_temp_yield \/ dsm_temp_raise \/ dsm_temp_stop
SpecTemp == InitTemp /\ [][NextTemp]_vars

(***************************************************************************)
(* _ensure_condensed.  An ndarray is its shape and its elements in C       *)
(* order; a Python list is its items.  An error message is the sequence of *)
(* its pieces.                                                             *)
(***************************************************************************)
ndarray(shape, flat) == [kind |-> "ndarray", shape |-> shape, flat |-> flat, items |-> <<>>]
pylist(items) == [kind |-> "list", shape |-> <<>>, flat |-> <<>>, items |-> items]

\* lines 118-120 and 123-125: the literals as written; "%s" is never substituted
MsgNotSquare ==
    <<"Invalid dimensions for \"", "%s",
      "\". The DSM should either be a square matrix, or a one dimensional array when in condensed form.">>
MsgBadRank ==
    <<"Invalid number of dimensions for \"", "%s",
      "\". The DSM should either be a square matrix, or a one dimensional array when in condensed form.">>
\* scipy's own message for a square matrix that is no distance matrix
MsgNotDistanceMatrix == <<"Distance matrix 'X' must be symmetric with a zero diagonal.">>

At(a, i, j) == a.flat[i * a.shape[2] + j + 1]

\* distance.squareform of a square 2-D array, with its validity check
squareform(a) ==
    LET d == a.shape[1]
        ix == Range(0, d)
        valid == \A i \in 0..(d - 1), j \in 0..(d - 1) :
                    /\ At(a, i, j) = At(a, j, i)
                    /\ (i = j => At(a, i, j) = 0)
        upper == SelectSeq([p \in 1..(d * d) |-> <<(p - 1) \div d, (p - 1) % d>>],
                           LAMBDA rc : rc[1] < rc[2])
    IN  IF ~valid THEN Raise(MsgNotDistanceMatrix)
        ELSE Return(ndarray(<<Len(upper)>>,
                            [p \in 1..Len(upper) |-> At(a, upper[p][1], upper[p][2])]))

RECURSIVE _ensure_condensed(_, _)
RECURSIVE ensure_items(_, _, _)
_ensure_condensed(dsm, var_name) ==
    IF dsm.kind = "list" THEN ensure_items(dsm.items, var_name, 1)
    ELSE IF Len(dsm.shape) = 2
         THEN IF dsm.shape[1] # dsm.shape[2] THEN Raise(MsgNotSquare)
              ELSE squareform(dsm)
    ELSE IF Len(dsm.shape) # 1 THEN Raise(MsgBadRank)
    ELSE Return(dsm)

\* line 114: the list comprehension from item k on; the first error ends it
ensure_items(items, var_name, k) ==
    IF k > Len(items) THEN Return(pylist(<<>>))
    ELSE Once(_ensure_condensed(items[k], var_name), LAMBDA head :
         IF ~head.ok THEN head
         ELSE Once(ensure_items(items, var_name, k + 1), LAMBDA rest :
              IF ~rest.ok THEN rest
              ELSE Return(pylist(<<head.val>> \o rest.val.items))))

MaxDim == 2
MaxListLen == 2

Iota(n) == [p \in 1..n |-> p]
\* arrays of rank 0 to 3; the square ones hold a distance matrix or an asymmetric one
ArrayInputs ==
    {ndarray(<<>>, <<7>>)}
    \cup {ndarray(<<n>>, Iota(n)) : n \in 0..(MaxDim + 1)}
    \cup {ndarray(<<r, c>>, [p \in 1..(r * c) |-> 0]) : r \in 1..MaxDim, c \in 1..MaxDim}
    \cup {ndarray(<<n, n>>, [p \in 1..(n * n) |->
                               IF (p - 1) \div n = (p - 1) % n THEN 0
                               ELSE 1 + ((p - 1) \div n) + ((p - 1) % n)]) : n \in 2..(MaxDim + 1)}
    \cup {ndarray(<<n, n>>, Iota(n * n)) : n \in 1..MaxDim}
    \cup {ndarray(<<n, n, n>>, Iota(n * n * n)) : n \in 1..MaxDim}

ListInputs ==
    UNION {{pylist(items) : items \in [1..n -> ArrayInputs]} : n \in 0..MaxListLen}
    \cup {pylist(<<pylist(<<a>>), b>>) : a \in ArrayInputs, b \in ArrayInputs}

VarNames == {"dsm_data", "dsm_model"}

InitCond ==
    /\ fn = "_ensure_condensed"
    /\ pc = "call"
    /\ ec \in {[dsm |-> d, var_name |-> v, i |-> 0, done |-> <<>>, ret |-> None,
                message |-> <<>>] : d \in ArrayInputs \cup ListInputs, v \in VarNames}
    /\ folds = None /\ dist_metric = None /\ cv = None
    /\ err = "none"
    /\ genIdle

condFrame == <<fn, folds, dist_metric, cv>>

\* lines 116-126: the argument is an array
ec_array ==
    /\ fn = "_ensure_condensed"
    /\ pc = "call"
    /\ ec.dsm.kind = "ndarray"
    /\ \E r \in {_ensure_condensed(ec.dsm, ec.var_name)} :
          IF r.ok
          THEN /\ ec' = [ec EXCEPT !.ret = r.val]
               /\ err' = err
          ELSE /\ ec' = [ec EXCEPT !.message = r.val]
               /\ err' = "ValueError"
    /\ pc' = "done"
    /\ UNCHANGED condFrame
    /\ UNCHANGED genVars

\* line 114: the next item of a list argument
ec_list_item ==
    /\ fn = "_ensure_condensed"
    /\ pc = "call"
    /\ ec.dsm.kind = "list"
    /\ ec.i < Len(ec.dsm.items)
    /\ \E r \in {_ensure_condensed(ec.dsm.items[ec.i + 1], ec.var_name)} :
          IF r.ok
          THEN /\ ec' = [ec EXCEPT !.i = ec.i + 1, !.done = Append(ec.done, r.val)]
               /\ UNCHANGED <<pc, err>>
          ELSE /\ ec' = [ec EXCEPT !.message = r.val]
               /\ err' = "ValueError"
               /\ pc' = "done"
    /\ UNCHANGED condFrame
    /\ UNCHANGED genVars

\* line 114: the list is returned
ec_list_return ==
    /\ fn = "_ensure_condensed"
    /\ pc = "call"
    /\ ec.dsm.kind = "list"
    /\ ec.i = Len(ec.dsm.items)
    /\ ec' = [ec EXCEPT !.ret = pylist(ec.done)]
    /\ pc' = "done"
    /\ UNCHANGED err
    /\ UNCHANGED condFrame
    /\ UNCHANGED genVars

NextCond == ec_array \/ ec_list_item \/ ec_list_return

SpecCond == InitCond /\ [][NextCond]_vars

(***************************************************************************)
(* Properties                                                              *)
(***************************************************************************)
\* the place of pair (i, j), i < j, both 0-based, in a condensed vector over n items
CondensedIndex(n, i, j) == n * i - (i * (i + 1)) \div 2 + (j - i - 1)

Elements(seq) == {seq[q] : q \in 1..Len(seq)}
Ascending(S, n) == SelectSeq(Range(0, n), LAMBDA j : j \in S)

\* the DSM the enumeration of dsm_spattemp gives its p-th patch (p from 1)
SerialDsm(p) == call_dsm_func(folds, task_patch(p - 1), dist_metric, EmptyMap).val

\* C1: once dsm_spattemp is consumed to its end, the caller holds n_series * |C|
\* DSMs, the one at s*|C| + i being that of series s and the i-th center.
C1_EveryPatchIsStreamed ==
    (fn = "dsm_spattemp" /\ pc = "done") =>
        LET C == _get_time_patch_centers(n_samples_of(folds), temporal_radius)
        IN  /\ Len(out) = n_series_of(folds) * Len(C)
            /\ \A s \in 0..(n_series_of(folds) - 1), i \in 0..(Len(C) - 1) :
                  out[s * Len(C) + i + 1] =
                      call_dsm_func(folds,
                          SpatTempPatch(folds, dist[s + 1], spatial_radius,
                                        C[i + 1], temporal_radius),
                          dist_metric, EmptyMap).val

\* the average of the folds other than test_fold (0-based), item by item and
\* feature by feature
LeaveOneOutMean(X, test_fold) ==
    [i \in 1..Len(X[1]) |->
        [f \in 1..Len(X[1][i]) |->
            RDiv(RSum([k \in 1..(Len(X) - 1) |->
                          X[IF k < test_fold + 1 THEN k ELSE k + 1][i][f]]),
                 Q(Len(X) - 1))]]

\* C2: in compute_dsm_cv the train estimate of every test fold is the average
\* of the other folds.
C2_TrainIsLeaveOneOutMean ==
    (fn = "compute_dsm_cv" /\ pc = "loop" /\ cv.test_fold > 0) =>
        cv.X_train = LeaveOneOutMean(cv.X, cv.test_fold - 1)

\* the flattened features of item i (from 1) in the patch of a selection
ItemFeatures(sel, i) ==
    IF fn = "dsm_spat" THEN Ravel(TakeSeries(folds, sel.idx)[1][i], 2)
    ELSE Ravel(TakeSamples(folds, sel.window[1], sel.window[2])[1][i], 2)

\* C3: with a one-fold tensor every DSM of dsm_spat and dsm_temp is the condensed
\* vector of the distances between the items of the patch.
C3_OneFoldDsmIsOverItems ==
    (fn \in {"dsm_spat", "dsm_temp"} /\ Len(folds) = 1) =>
        \A p \in 1..Len(out) :
            /\ Len(out[p]) = (NItems * (NItems - 1)) \div 2
            /\ \A i \in 0..(NItems - 1), j \in 0..(NItems - 1) :
                  i < j => out[p][CondensedIndex(NItems, i, j) + 1] =
                              Distance(dist_metric, ItemFeatures(patches[p], i + 1),
                                       ItemFeatures(patches[p], j + 1))

AscendingFrom(cs, first, last) ==
    /\ Len(cs) = last - first + 1
    /\ \A q \in 1..Len(cs) : cs[q] = first + q - 1

\* C4 as stated: the centers are empty whenever 2 * temporal_radius >= n_samples,
\* dsm_temp then yielding nothing and raising nothing, and are the ascending
\* indices temporal_radius .. n_samples - temporal_radius otherwise.
C4_NoCenterFromTwiceRadiusEqualOn ==
    fn = "dsm_temp" =>
        LET n == n_samples_of(folds)
            C == _get_time_patch_centers(n, temporal_radius)
        IN  /\ 2 * temporal_radius >= n =>
                  /\ C = <<>>
                  /\ pc = "done" => (out = <<>> /\ err = "none")
            /\ 2 * temporal_radius < n =>
                  AscendingFrom(C, temporal_radius, n - temporal_radius)

\* C4 as amended: the centers are empty when 2 * temporal_radius > n_samples,
\* dsm_temp then yielding nothing and raising nothing; when
\* 2 * temporal_radius <= n_samples they are the ascending indices
\* temporal_radius .. n_samples - temporal_radius, and a dsm_temp that ends
\* without an error has visited exactly these, in this order.
C4_NoCenterOnlyBeyondTwiceRadius ==
    fn = "dsm_temp" =>
        LET n == n_samples_of(folds)
            C == _get_time_patch_centers(n, temporal_radius)
        IN  /\ 2 * temporal_radius > n =>
                  /\ C = <<>>
                  /\ pc = "done" => (out = <<>> /\ err = "none")
            /\ 2 * temporal_radius <= n =>
                  /\ AscendingFrom(C, temporal_radius, n - temporal_radius)
                  /\ (pc = "done" /\ err = "none") =>
                        /\ Len(out) = n - 2 * temporal_radius + 1
                        /\ \A q \in 1..Len(patches) :
                              patches[q].sample = temporal_radius + q - 1

C4_WindowAsLongAsRecording ==
    /\ fn = "dsm_temp"
    /\ n_samples_of(folds) = 10
    /\ temporal_radius = 5
    /\ pc = "done"
    /\ Len(out) = 1
    /\ patches[1].window = <<0, 10>>

StrictNeighbors(s) ==
    {j \in 0..(Len(dist) - 1) : RLess(Q(dist[s + 1][j + 1]), spatial_radius)}

\* C5: once dsm_spat is consumed to its end, the caller holds one DSM per series,
\* the s-th computed from the series strictly nearer to s than spatial_radius.
C5_OneDsmPerSeries ==
    (fn = "dsm_spat" /\ pc = "done") =>
        /\ Len(out) = Len(dist)
        /\ \A s \in 0..(Len(dist) - 1) :
              /\ Elements(patches[s + 1].idx) = StrictNeighbors(s)
              /\ out[s + 1] =
                    call_dsm_func(folds,
                        TakeSeries(folds, Ascending(StrictNeighbors(s), Len(dist))),
                        dist_metric, EmptyMap).val

ZeroDiagonal(d) == \A s \in 1..Len(d) : d[s][s] = 0

\* C6 as stated: with a zero-diagonal distance matrix, whatever the radius, the
\* neighbourhood dsm_spat and dsm_spattemp select for a series holds that series.
C6_SelfAlwaysSelected ==
    (fn \in {"dsm_spat", "dsm_spattemp"} /\ ZeroDiagonal(dist)) =>
        \A p \in 1..Len(patches) : patches[p].series \in Elements(patches[p].idx)

\* C6 as amended: with a zero-diagonal distance matrix and a radius above 0, the
\* neighbourhood selected for a series holds that series; with radius 0 it is
\* empty.
C6_SelfSelectedWithinPositiveRadius ==
    (fn \in {"dsm_spat", "dsm_spattemp"} /\ ZeroDiagonal(dist)) =>
        \A p \in 1..Len(patches) :
            IF RLess(Q(0), spatial_radius)
            THEN patches[p].series \in Elements(patches[p].idx)
            ELSE patches[p].idx = <<>>

C6_OnlySelfWithinRadius ==
    /\ fn = "dsm_spattemp"
    /\ spatial_radius = Q(1)
    /\ Len(patches) >= 2
    /\ patches[2].series = 1
    /\ patches[2].idx = <<1>>

FoldsIdentical(fold_array) == \A k \in 1..Len(fold_array) : fold_array[k] = fold_array[1]

\* C8: on identical folds compute_dsm_cv returns what compute_dsm returns on the
\* fold average (and on any one fold), pair (i, j) at its row-major place.
C8_IdenticalFoldsGiveBasicDsm ==
    (fn = "compute_dsm_cv" /\ pc = "done" /\ err = "none" /\ FoldsIdentical(folds)) =>
        /\ cv.ret = compute_dsm(mean_axis0(Reshape3(folds, 3)), 2, dist_metric).val
        /\ cv.ret = compute_dsm(folds[1], 2, dist_metric).val
        /\ \A i \in 0..(NItemsCV - 1), j \in 0..(NItemsCV - 1) :
              i < j => cv.ret[CondensedIndex(NItemsCV, i, j) + 1] =
                          Distance(dist_metric, folds[1][i + 1], folds[1][j + 1])

C8_FiveIdenticalFolds ==
    /\ fn = "compute_dsm_cv"
    /\ pc = "done"
    /\ FoldsIdentical(folds)
    /\ Len(folds) = 5
    /\ cv.ret[1] # Q(0)
    /\ cv.ret[1] # cv.ret[2]

\* C9: _ensure_condensed fails on a 2-D array that is not square and on an array
\* of rank other than 1 and 2, the error naming var_name; it returns a 1-D array
\* unchanged; the items of a list meet the same rules.
C9_ErrorNamesArgument ==
    (fn = "_ensure_condensed" /\ pc = "done") =>
        LET a == IF ec.dsm.kind = "list" THEN ec.dsm.items[ec.i + 1] ELSE ec.dsm
            rank == Len(a.shape)
            reached == ec.dsm.kind = "ndarray" \/ ec.i < Len(ec.dsm.items)
        IN  /\ (reached /\ a.kind = "ndarray" /\ rank = 2 /\ a.shape[1] # a.shape[2]) =>
                  (err = "ValueError" /\ ec.var_name \in Elements(ec.message))
            /\ (reached /\ a.kind = "ndarray" /\ rank \notin {1, 2}) =>
                  (err = "ValueError" /\ ec.var_name \in Elements(ec.message))
            /\ (ec.dsm.kind = "ndarray" /\ rank = 1) =>
                  (err = "none" /\ ec.ret = ec.dsm)
            /\ (ec.dsm.kind = "list" /\ err = "none") =>
                  \A k \in 1..Len(ec.dsm.items) :
                      ec.ret.items[k] = _ensure_condensed(ec.dsm.items[k], ec.var_name).val

\* C10: with dist_params left at None no generator ends in an error, and dsm_spat
\* and dsm_temp hand over what they hand over for an empty option map.
C10_DefaultParamsRaiseNothing ==
    (fn \in {"dsm_spat", "dsm_temp", "dsm_spattemp"} /\ dist_params = None) =>
        /\ err = "none"
        /\ (fn = "dsm_spat" /\ pc = "done") =>
              out = [s \in 1..Len(dist) |->
                        call_dsm_func(folds, SpatPatch(folds, dist[s], spatial_radius),
                                      dist_metric, EmptyMap).val]
        /\ (fn = "dsm_temp" /\ pc = "done") =>
              out = [q \in 1..Len(centers) |->
                        call_dsm_func(folds, TempPatch(folds, centers[q], temporal_radius),
                                      dist_metric, EmptyMap).val]

====
